---- MODULE Spec2Model ----
(***************************************************************************)
(* Book records API (src/src/pages/api/hello.ts): the module-level         *)
(* bootstrap of the SQLite store and the request handler; and the Home     *)
(* page (src/unnamed/part_000), the client that lists, edits and deletes   *)
(* the records through that API.                                           *)
(*                                                                         *)
(* JavaScript / JSON / SQLite values are tagged records                    *)
(*   [k |-> kind, s |-> characters, n |-> number in tenths,                *)
(*    b |-> boolean, a |-> array items]                                    *)
(* so that values of different types can be compared.  A string is the     *)
(* sequence of its characters; a number x is kept as 10 * x (one decimal   *)
(* digit), which is enough to tell 1.5 from 1 and from 2.                  *)
(***************************************************************************)
EXTENDS Integers, Sequences, FiniteSets, Bags, TLC

VARIABLES
    dirExists,    \* the data directory exists on disk
    tableExists,  \* the books table exists in the database file
    books,        \* the rows of table books, in rowid order
    seq,          \* sqlite_sequence of books: the largest id ever assigned
    boots,        \* module loads (process starts) in a row since the last request
    seedRuns,     \* number of bootstraps that inserted the seed rows
    handled,      \* a request has been handled since the store was created
    lastOp,       \* "none", "boot", "bootFailed" or "request": the step taken last
    pre,          \* the rows of table books before the last step
    ops,          \* the SQL statements the last step executed, in order
    up,           \* the process is running: the module has been loaded
    req,          \* the request handled last
    res           \* the response to it

serverVars == <<dirExists, tableExists, books, seq, boots, seedRuns, handled,
                lastOp, pre, ops, up, req, res>>

VARIABLES
    viewBooks,    \* Home's state books: the list displayed
    selectedBook, \* Home's state selectedBook: a Book, or NoBook for null
    editMode,     \* Home's state editMode
    formData,     \* Home's state formData: title, author, year as strings
    error,        \* Home's state error
    mounted,      \* the effect of the first render has run
    tasks,        \* the calls of fetchBooks, handleUpdate and handleDelete that
                  \* wait for the answer to their request
    lastStep,     \* the client step taken last, and the book id it was about
    actions,      \* number of submits and deletes the user has made
    orderly,      \* so far no submit or delete was made while a request was
                  \* outstanding, and no answer to an update or delete the
                  \* server carried out was lost
    lastFetch     \* the list fetch issued last: "none", "pending", "ok", "failed"

clientVars == <<viewBooks, selectedBook, editMode, formData, error, mounted,
                tasks, lastStep, actions, orderly, lastFetch>>

vars == <<serverVars, clientVars>>

----------------------------------------------------------------------------
(* Bounds *)

\* process starts (module loads) in a row, with no request in between
MaxBoots == 2

\* requests of the client that wait for their answer at one time
MaxInFlight == 2

\* submits and deletes the user makes in one behaviour
MaxActions == 2

----------------------------------------------------------------------------
(* Values *)

Undefined == [k |-> "undefined", s |-> <<>>, n |-> 0, b |-> FALSE, a |-> <<>>]
Null      == [k |-> "null",      s |-> <<>>, n |-> 0, b |-> FALSE, a |-> <<>>]
NaN       == [k |-> "nan",       s |-> <<>>, n |-> 0, b |-> FALSE, a |-> <<>>]
Str(cs)   == [k |-> "string",    s |-> cs,   n |-> 0, b |-> FALSE, a |-> <<>>]
Num(x10)  == [k |-> "number",    s |-> <<>>, n |-> x10, b |-> FALSE, a |-> <<>>]
IntNum(i) == Num(10 * i)
Bool(v)   == [k |-> "boolean",   s |-> <<>>, n |-> 0, b |-> v, a |-> <<>>]
Array(vs) == [k |-> "array",     s |-> <<>>, n |-> 0, b |-> FALSE, a |-> vs]

\* JavaScript ToBoolean: undefined, null, NaN, 0, "" and false are falsy;
\* every array is truthy, the empty one too.
Truthy(v) ==
    CASE v.k = "undefined" -> FALSE
      [] v.k = "null"      -> FALSE
      [] v.k = "nan"       -> FALSE
      [] v.k = "string"    -> v.s # <<>>
      [] v.k = "number"    -> v.n # 0
      [] v.k = "boolean"   -> v.b
      [] v.k = "array"     -> TRUE

IsInteger(v) == v.k = "number" /\ v.n % 10 = 0

Digits == <<"0", "1", "2", "3", "4", "5", "6", "7", "8", "9">>

IsDigit(c) == \E i \in 1..10 : Digits[i] = c

DigitVal(c) == (CHOOSE i \in 1..10 : Digits[i] = c) - 1

AllDigits(cs) == \A i \in 1..Len(cs) : IsDigit(cs[i])

RECURSIVE DigitsVal(_)
DigitsVal(cs) ==
    IF cs = <<>> THEN 0
    ELSE 10 * DigitsVal(SubSeq(cs, 1, Len(cs) - 1)) + DigitVal(cs[Len(cs)])

\* The position of the first "." of cs, or Len(cs) + 1.
DotPos(cs) ==
    IF \E i \in 1..Len(cs) : cs[i] = "."
    THEN CHOOSE i \in 1..Len(cs) :
            cs[i] = "." /\ \A j \in 1..(i - 1) : cs[j] # "."
    ELSE Len(cs) + 1

\* A decimal literal [+-] digits [. digits] or [+-] . digits, read to tenths:
\* [ok |-> it is one, n |-> its value in tenths].
ParseDecimal(cs) ==
    LET signed == cs # <<>> /\ cs[1] \in {"+", "-"}
        body   == IF signed THEN Tail(cs) ELSE cs
        dot    == DotPos(body)
        ip     == SubSeq(body, 1, dot - 1)
        fp     == SubSeq(body, dot + 1, Len(body))
        ok     == /\ AllDigits(ip) /\ AllDigits(fp)
                  /\ Len(ip) + Len(fp) >= 1
        mag    == 10 * DigitsVal(ip) + (IF fp = <<>> THEN 0 ELSE DigitVal(fp[1]))
    IN  [ok |-> ok,
         n  |-> IF ~ok THEN 0
                ELSE IF signed /\ cs[1] = "-" THEN 0 - mag ELSE mag]

\* JavaScript Number(value) of a string (the empty string is 0) or of
\* undefined (NaN).
Number(v) ==
    CASE v.k = "undefined" -> NaN
      [] v.k = "null"      -> Num(0)
      [] v.k = "number"    -> v
      [] v.k = "nan"       -> NaN
      [] v.k = "boolean"   -> IF v.b THEN IntNum(1) ELSE IntNum(0)
      [] v.k = "string"    ->
            IF v.s = <<>> THEN Num(0)
            ELSE LET p == ParseDecimal(v.s)
                 IN  IF p.ok THEN Num(p.n) ELSE NaN

\* JavaScript isNaN(value)
isNaN(v) == Number(v).k = "nan"

RECURSIVE NatText(_)
NatText(i) ==
    IF i < 10 THEN <<Digits[i + 1]>>
    ELSE NatText(i \div 10) \o <<Digits[(i % 10) + 1]>>

\* The text of a number kept in tenths, as SQLite renders it.
NumText(x10) ==
    LET mag  == IF x10 < 0 THEN 0 - x10 ELSE x10
        sign == IF x10 < 0 THEN <<"-">> ELSE <<>>
    IN  sign \o NatText(mag \div 10)
             \o (IF mag % 10 = 0 THEN <<>> ELSE <<".">> \o NatText(mag % 10))

----------------------------------------------------------------------------
(* The store: better-sqlite3 bindings and the columns of table books *)

\* better-sqlite3 binds numbers, strings and null; any other value makes
\* run() throw a TypeError before the statement executes.
Bindable(v) == v.k \in {"number", "string", "null"}

\* The anonymous parameters run(...) binds: an argument that is an array
\* stands for its items, in order (run('a', 'b') and run(['a', 'b']) are the
\* same call); any other argument is one parameter.
RECURSIVE Parameters(_)
Parameters(args) ==
    IF args = <<>> THEN <<>>
    ELSE (IF Head(args).k = "array" THEN Head(args).a ELSE <<Head(args)>>)
            \o Parameters(Tail(args))

\* run() throws unless the statement's placeholders are all bound, each by a
\* bindable value (RangeError: too few or too many values; TypeError).
BindsTo(params, placeholders) ==
    /\ Len(params) = placeholders
    /\ \A i \in 1..Len(params) : Bindable(params[i])

\* title, author and year are declared NOT NULL.
NotNull(v) == v.k # "null"

\* Column affinity TEXT (title, author): a number is stored as its text.
TextAffinity(v) ==
    IF v.k = "number" THEN Str(NumText(v.n)) ELSE v

\* Column affinity INTEGER (year): text that is a well-formed number is
\* stored as that number (INTEGER or REAL); any other text is stored as text.
IntegerAffinity(v) ==
    IF v.k = "string"
    THEN LET p == ParseDecimal(v.s)
         IN  IF p.ok THEN Num(p.n) ELSE v
    ELSE v

\* Book: a row of table books.
Book(id, title, author, year) ==
    [id |-> id, title |-> TextAffinity(title), author |-> TextAffinity(author),
     year |-> IntegerAffinity(year)]

\* WHERE id = ? with the bound JavaScript number.
IdMatches(row, id) == id.k = "number" /\ id.n = 10 * row.id

\* SELECT * FROM books WHERE id = ?
SelectById(rows, id) == SelectSeq(rows, LAMBDA r : IdMatches(r, id))

\* UPDATE books SET title = ?, author = ?, year = ? WHERE id = ?
UpdateById(rows, title, author, year, id) ==
    [i \in DOMAIN rows |->
        IF IdMatches(rows[i], id)
        THEN Book(rows[i].id, title, author, year)
        ELSE rows[i]]

\* DELETE FROM books WHERE id = ?
DeleteById(rows, id) == SelectSeq(rows, LAMBDA r : ~IdMatches(r, id))

\* result.changes of an UPDATE or DELETE ... WHERE id = ?
Changes(rows, id) == Len(SelectById(rows, id))

----------------------------------------------------------------------------
(* Module-level bootstrap *)

GreatGatsby == <<"T","h","e"," ","G","r","e","a","t"," ","G","a","t","s","b","y">>
Fitzgerald  == <<"F","."," ","S","c","o","t","t"," ",
                 "F","i","t","z","g","e","r","a","l","d">>
NineteenEightyFour == <<"1","9","8","4">>
Orwell      == <<"G","e","o","r","g","e"," ","O","r","w","e","l","l">>
Mockingbird == <<"T","o"," ","K","i","l","l"," ","a"," ",
                 "M","o","c","k","i","n","g","b","i","r","d">>
HarperLee   == <<"H","a","r","p","e","r"," ","L","e","e">>

fakeBooks ==
    << [title |-> Str(GreatGatsby),        author |-> Str(Fitzgerald), year |-> IntNum(1925)],
       [title |-> Str(NineteenEightyFour), author |-> Str(Orwell),     year |-> IntNum(1949)],
       [title |-> Str(Mockingbird),        author |-> Str(HarperLee),  year |-> IntNum(1960)] >>

\* A seeding that does not look at the row count.
SeedAlways(count) == TRUE

\* A seeding that tops the table up whenever rows are missing.
SeedIfFewer(count) == count < 3

\* CREATE TABLE IF NOT EXISTS books: succeeds whether or not the table exists.
CreateTableOk(exists) == TRUE

\* if (count.count === 0)
SeedNeeded(count) == count = 0

\* INSERT INTO books (title, author, year): AUTOINCREMENT assigns the id after
\* the largest id ever assigned.
InsertAll(rows, last, new) ==
    rows \o [i \in 1..Len(new) |->
                Book(last + i, new[i].title, new[i].author, new[i].year)]

NoRequest  == [method |-> "", id |-> <<>>,
               body |-> [title |-> Undefined, author |-> Undefined, year |-> Undefined]]
NoResponse == [status |-> 0, kind |-> "none", rows |-> <<>>, error |-> "", allow |-> <<>>]

\* selectedBook = null
NoBook == [id |-> 0, title |-> Null, author |-> Null, year |-> Null]

\* useState<FormData>({ title: "", author: "", year: "" })
EmptyForm == [title |-> <<>>, author |-> <<>>, year |-> <<>>]

NoStep == [kind |-> "none", id |-> 0]

\* Home's state at the first render.
ClientInit ==
    /\ viewBooks = <<>>
    /\ selectedBook = NoBook
    /\ editMode = FALSE
    /\ formData = EmptyForm
    /\ error = ""
    /\ mounted = FALSE
    /\ tasks = EmptyBag
    /\ lastStep = NoStep
    /\ actions = 0
    /\ orderly = TRUE
    /\ lastFetch = "none"

Init ==
    /\ ClientInit
    /\ dirExists = FALSE
    /\ tableExists = FALSE
    /\ books = <<>>
    /\ seq = 0
    /\ boots = 0
    /\ seedRuns = 0
    /\ handled = FALSE
    /\ lastOp = "none"
    /\ pre = <<>>
    /\ ops = <<>>
    /\ up = FALSE
    /\ req = NoRequest
    /\ res = NoResponse

\* The module is loaded (process start or restart): lines 148-182.
Bootstrap ==
    /\ boots < MaxBoots
    /\ boots' = boots + 1
    /\ dirExists' = TRUE
    /\ pre' = books
    /\ req' = NoRequest
    /\ res' = NoResponse
    /\ UNCHANGED handled
    /\ UNCHANGED clientVars
    /\ IF ~CreateTableOk(tableExists)
       THEN /\ up' = FALSE
            /\ lastOp' = "bootFailed"
            /\ ops' = <<"CREATE TABLE">>
            /\ UNCHANGED <<tableExists, books, seq, seedRuns>>
       ELSE /\ up' = TRUE
            /\ lastOp' = "boot"
            /\ tableExists' = TRUE
            /\ IF SeedNeeded(Len(books))
               THEN /\ books' = InsertAll(books, seq, fakeBooks)
                    /\ seq' = seq + Len(fakeBooks)
                    /\ seedRuns' = seedRuns + 1
                    /\ ops' = <<"CREATE TABLE", "SELECT COUNT">>
                                \o [i \in 1..Len(fakeBooks) |-> "INSERT"]
               ELSE /\ ops' = <<"CREATE TABLE", "SELECT COUNT">>
                    /\ UNCHANGED <<books, seq, seedRuns>>

----------------------------------------------------------------------------
(* The request handler *)

Methods == {"GET", "PUT", "DELETE", "POST"}

Chars(a, b, c) == <<a, b, c>>

\* req.query.id: the path segments after /api/books, each a string; <<>>
\* when the request target carries none (query.id is undefined).
QueryIds ==
    {<<>>} \cup
    {<<Str(t)>> : t \in {<<"0">>, <<"1">>, <<"2">>, <<"3">>, <<"9">>,
                         Chars("a", "b", "c"), Chars("1", ".", "5")}}

\* The identifiers of PUT requests: the third seed record is never updated.
PutIds == QueryIds \ {<<Str(<<"3">>)>>}

Titles  == {Str(<<>>), Str(<<"T">>), IntNum(7), Array(<<>>)}
Authors == {Null, Str(<<"A">>)}
Years   == {Undefined, IntNum(0), IntNum(2000), Str(<<"2","0","0","0">>),
            Str(Chars("a", "b", "c")), Bool(TRUE)}

\* A request without a body, and one with a complete body.
NoBody   == [title |-> Undefined, author |-> Undefined, year |-> Undefined]
FullBody == [title |-> Str(<<"T">>), author |-> Str(<<"A">>), year |-> IntNum(2000)]

\* Bodies whose title is an array of three values and whose author and year
\* are empty arrays.
SplicedBody ==
    [title  |-> Array(<<Str(<<>>), Str(<<"A">>), IntNum(2000)>>),
     author |-> Array(<<>>), year |-> Array(<<>>)]
NullSplicedBody ==
    [title  |-> Array(<<Null, Str(<<"A">>), IntNum(2000)>>),
     author |-> Array(<<>>), year |-> Array(<<>>)]

\* The bodies of PUT requests: no body, the complete body with one field
\* replaced by each value of that field, and the bodies made of arrays.
Bodies ==
    {NoBody, SplicedBody, NullSplicedBody}
    \cup {[FullBody EXCEPT !.title = t]  : t \in Titles}
    \cup {[FullBody EXCEPT !.author = a] : a \in Authors}
    \cup {[FullBody EXCEPT !.year = y]   : y \in Years}

Requests ==
    [method : {"PUT"}, id : PutIds, body : Bodies] \cup
    [method : {"GET", "DELETE"}, id : QueryIds, body : {NoBody}] \cup
    [method : Methods \ {"GET", "PUT", "DELETE"}, id : QueryIds, body : {NoBody, FullBody}]

\* res.status(status).json(...) / .end(...)
Response(status, kind, rows, message) ==
    [status |-> status, kind |-> kind, rows |-> rows, error |-> message, allow |-> <<>>]

\* const id = req.query.id ? Number(req.query.id[0]) : null
RequestId(q) == IF q # <<>> THEN Number(q[1]) ELSE Null

\* if (id && isNaN(id))
InvalidId(id) == Truthy(id) /\ isNaN(id)

\* A validation that forgets the year.
MissingTitleOrAuthor(body) ==
    \/ ~Truthy(body.title)
    \/ ~Truthy(body.author)

\* if (!title || !author || !year)
MissingFields(body) ==
    \/ ~Truthy(body.title)
    \/ ~Truthy(body.author)
    \/ ~Truthy(body.year)

\* case 'GET'
HandleGet(id, rows) ==
    IF Truthy(id)
    THEN LET book == SelectById(rows, id)
         IN  IF book = <<>>
             THEN [res  |-> Response(404, "error", <<>>, "Book not found"),
                   rows |-> rows, ops |-> <<"SELECT BY ID">>]
             ELSE [res  |-> Response(200, "book", <<book[1]>>, ""),
                   rows |-> rows, ops |-> <<"SELECT BY ID">>]
    ELSE [res  |-> Response(200, "list", rows, ""),
          rows |-> rows, ops |-> <<"SELECT ALL">>]

\* case 'PUT'
HandlePut(id, body, rows) ==
    IF ~Truthy(id)
    THEN [res  |-> Response(400, "error", <<>>, "Missing book ID"),
          rows |-> rows, ops |-> <<>>]
    ELSE IF MissingFields(body)
    THEN [res  |-> Response(400, "error", <<>>, "Missing required fields"),
          rows |-> rows, ops |-> <<>>]
    ELSE LET p == Parameters(<<body.title, body.author, body.year, id>>) IN
    IF ~BindsTo(p, 4)
    THEN \* run() throws before the statement executes; the catch block answers
         [res  |-> Response(500, "error", <<>>, "Failed to update book"),
          rows |-> rows, ops |-> <<>>]
    ELSE IF Changes(rows, p[4]) > 0 /\ ~(NotNull(p[1]) /\ NotNull(p[2]) /\ NotNull(p[3]))
    THEN \* the statement fails on a NOT NULL constraint; the catch block answers
         [res  |-> Response(500, "error", <<>>, "Failed to update book"),
          rows |-> rows, ops |-> <<"UPDATE">>]
    ELSE LET updated == UpdateById(rows, p[1], p[2], p[3], p[4])
         IN  IF Changes(rows, p[4]) = 0
             THEN [res  |-> Response(404, "error", <<>>, "Book not found"),
                   rows |-> updated, ops |-> <<"UPDATE">>]
             ELSE [res  |-> Response(200, "book", SelectById(updated, id), ""),
                   rows |-> updated, ops |-> <<"UPDATE", "SELECT BY ID">>]

\* case 'DELETE'
HandleDelete(id, rows) ==
    IF ~Truthy(id)
    THEN [res  |-> Response(400, "error", <<>>, "Missing book ID"),
          rows |-> rows, ops |-> <<>>]
    ELSE LET remaining == DeleteById(rows, id)
         IN  IF Changes(rows, id) = 0
             THEN [res  |-> Response(404, "error", <<>>, "Book not found"),
                   rows |-> remaining, ops |-> <<"DELETE">>]
             ELSE [res  |-> Response(204, "empty", <<>>, ""),
                   rows |-> remaining, ops |-> <<"DELETE">>]

\* A default branch that forgets the Allow header.
HandleOtherNoAllow(rows) ==
    [res  |-> Response(405, "text", <<>>, "Method Not Allowed"),
     rows |-> rows, ops |-> <<>>]

\* default
HandleOther(rows) ==
    [res  |-> [Response(405, "text", <<>>, "Method Not Allowed")
                 EXCEPT !.allow = <<"GET", "PUT", "DELETE">>],
     rows |-> rows, ops |-> <<>>]

\* handler(req, res): the response, the rows afterwards and the statements run.
handler(r, rows) ==
    LET id == RequestId(r.id)
    IN  IF InvalidId(id)
        THEN [res  |-> Response(400, "error", <<>>, "Invalid ID format"),
              rows |-> rows, ops |-> <<>>]
        ELSE CASE r.method = "GET"    -> HandleGet(id, rows)
               [] r.method = "PUT"    -> HandlePut(id, r.body, rows)
               [] r.method = "DELETE" -> HandleDelete(id, rows)
               [] OTHER               -> HandleOther(rows)

\* One request is handled, start to finish (the store calls are synchronous).
Handle(r) ==
    /\ up
    /\ LET out == handler(r, books)
       IN  /\ books' = out.rows
           /\ res' = out.res
           /\ ops' = out.ops
    /\ req' = r
    /\ pre' = books
    /\ lastOp' = "request"
    /\ handled' = TRUE
    /\ boots' = 0
    /\ UNCHANGED <<dirExists, tableExists, seq, seedRuns, up>>

Request == \E r \in Requests : Handle(r) /\ UNCHANGED clientVars

Next == Bootstrap \/ Request

Spec == Init /\ [][Next]_vars

----------------------------------------------------------------------------
(* The Home page: the client *)

\* The state of Home as one record.
UI == [books |-> viewBooks, selectedBook |-> selectedBook, editMode |-> editMode,
       formData |-> formData, error |-> error]

\* The setState calls of one step take effect.
Render(u) ==
    /\ viewBooks' = u.books
    /\ selectedBook' = u.selectedBook
    /\ editMode' = u.editMode
    /\ formData' = u.formData
    /\ error' = u.error

\* value.toString() of a number or a string
toString(v) == IF v.k = "number" THEN NumText(v.n) ELSE v.s

\* The longest prefix of cs made of digits.
RECURSIVE LeadingDigits(_)
LeadingDigits(cs) ==
    IF cs = <<>> \/ ~IsDigit(Head(cs)) THEN <<>>
    ELSE <<Head(cs)>> \o LeadingDigits(Tail(cs))

\* parseInt(string): the integer its leading sign and digits write, or NaN.
parseInt(cs) ==
    LET signed == cs # <<>> /\ cs[1] \in {"+", "-"}
        ds     == LeadingDigits(IF signed THEN Tail(cs) ELSE cs)
    IN  IF ds = <<>> THEN NaN
        ELSE IF signed /\ cs[1] = "-" THEN IntNum(0 - DigitsVal(ds))
        ELSE IntNum(DigitsVal(ds))

\* JSON.stringify of a field value: NaN is written null.
Json(v) == IF v.k = "nan" THEN Null ELSE v

\* The values the user types into the form: [field, text].
FormInputs == { <<"title", <<"T">>>> }

\* The ids of the books whose Edit and Delete buttons the user clicks.
Clicked == {1, 2}

\* A call of fetchBooks, handleUpdate or handleDelete waiting at its await:
\* the request it sent, whether the server has answered, and the answer.
\* latest marks the list fetch issued last.
Task(kind, id, body) ==
    [kind |-> kind, id |-> id, body |-> body, stage |-> "sent",
     status |-> 0, rows |-> <<>>, latest |-> FALSE]

\* fetch("/api/books")
FetchTask == [Task("GET", 0, NoBody) EXCEPT !.latest = TRUE]

\* The request of a task as the handler receives it: /api/books/${id}.
RequestOf(t) ==
    [method |-> t.kind,
     id     |-> IF t.id = 0 THEN <<>> ELSE <<Str(NatText(t.id))>>,
     body   |-> t.body]

\* Mutant: the request is sent twice.
StartedTwice(ts, t) == ts (+) SetToBag({t}) (+) SetToBag({t})

\* The calls in flight form a bag: nothing orders them.
Started(ts, t) == ts (+) SetToBag({t})
Finished(ts, t) == ts (-) SetToBag({t})
InFlight == BagCardinality(tasks)

\* fetchBooks is called: its fetch becomes the list fetch issued last.
Superseded(ts) ==
    LET last == {t \in BagToSet(ts) : t.latest}
    IN  IF last = {} THEN ts
        ELSE LET t == CHOOSE x \in last : TRUE
             IN  Started(Finished(ts, t), [t EXCEPT !.latest = FALSE])
StartedFetch(ts) == Started(Superseded(ts), FetchTask)

\* response.ok
Ok(status) == status >= 200 /\ status <= 299

\* Mutant: setBooks(data) is left out.
fetchBooksKeepsList(u, ok, data) ==
    IF ok THEN [u EXCEPT !.error = ""]
    ELSE [u EXCEPT !.error = "Error fetching books"]

\* fetchBooks after its await: lines 36-42.
fetchBooksSettled(u, ok, data) ==
    IF ok THEN [u EXCEPT !.books = data, !.error = ""]
    ELSE [u EXCEPT !.error = "Error fetching books"]

\* handleEdit: lines 46-55.
handleEditState(u, book) ==
    [u EXCEPT !.selectedBook = book,
              !.formData = [title  |-> book.title.s,
                            author |-> book.author.s,
                            year   |-> toString(book.year)],
              !.editMode = TRUE,
              !.error = ""]

\* The Cancel button: line 172.
CancelState(u) == [u EXCEPT !.editMode = FALSE]

\* Mutant: the form is closed whatever the answer.
handleUpdateAlwaysCloses(u, ok) ==
    IF ok THEN [u EXCEPT !.editMode = FALSE, !.selectedBook = NoBook, !.error = ""]
    ELSE [u EXCEPT !.editMode = FALSE, !.selectedBook = NoBook,
                   !.error = "Error updating book"]

\* Mutant: setEditMode(false) is left out.
handleUpdateKeepsEditMode(u, ok) ==
    IF ok THEN [u EXCEPT !.selectedBook = NoBook, !.error = ""]
    ELSE [u EXCEPT !.error = "Error updating book"]

\* Mutant: the form is emptied on success.
handleUpdateResetsForm(u, ok) ==
    IF ok THEN [u EXCEPT !.editMode = FALSE, !.selectedBook = NoBook,
                         !.formData = EmptyForm, !.error = ""]
    ELSE [u EXCEPT !.error = "Error updating book"]

\* handleUpdate after its await, up to the call of fetchBooks: lines 73-81.
handleUpdateSettled(u, ok) ==
    IF ok THEN [u EXCEPT !.editMode = FALSE, !.selectedBook = NoBook, !.error = ""]
    ELSE [u EXCEPT !.error = "Error updating book"]

\* Mutant: a successful delete closes the form.
handleDeleteClosesForm(u, ok) ==
    IF ok THEN [u EXCEPT !.editMode = FALSE, !.selectedBook = NoBook, !.error = ""]
    ELSE [u EXCEPT !.error = "Error deleting book"]

\* Mutant: setError("") is left out.
handleDeleteKeepsError(u, ok) ==
    IF ok THEN u
    ELSE [u EXCEPT !.error = "Error deleting book"]

\* handleDelete after its await, up to the call of fetchBooks: lines 91-97.
handleDeleteSettled(u, ok) ==
    IF ok THEN [u EXCEPT !.error = ""]
    ELSE [u EXCEPT !.error = "Error deleting book"]

\* Mutant: only handleDelete calls fetchBooks.
RefetchAfterDelete(kind, ok) == kind = "DELETE" /\ ok

\* handleUpdate and handleDelete call fetchBooks after a successful answer.
RefetchAfter(kind, ok) == kind \in {"PUT", "DELETE"} /\ ok

\* The state after the call waiting as t has got its answer.
Settled(u, t, ok) ==
    CASE t.kind = "GET"    -> fetchBooksSettled(u, ok, t.rows)
      [] t.kind = "PUT"    -> handleUpdateSettled(u, ok)
      [] t.kind = "DELETE" -> handleDeleteSettled(u, ok)

StepName(t, ok) ==
    CASE t.kind = "GET"    -> IF ok THEN "fetchOk" ELSE "fetchFail"
      [] t.kind = "PUT"    -> IF ok THEN "updateOk" ELSE "updateFail"
      [] t.kind = "DELETE" -> IF ok THEN "deleteOk" ELSE "deleteFail"

ServerUnchanged == UNCHANGED serverVars

\* useEffect(() => { fetchBooks() }, []): lines 29-31.
Mount ==
    /\ ~mounted
    /\ mounted' = TRUE
    /\ tasks' = StartedFetch(tasks)
    /\ lastFetch' = "pending"
    /\ lastStep' = [kind |-> "mount", id |-> 0]
    /\ UNCHANGED <<viewBooks, selectedBook, editMode, formData, error, actions,
                   orderly>>
    /\ ServerUnchanged

\* The Edit button of a displayed book.
handleEdit(book) ==
    /\ mounted
    /\ Render(handleEditState(UI, book))
    /\ lastStep' = [kind |-> "edit", id |-> book.id]
    /\ UNCHANGED <<mounted, tasks, actions, orderly, lastFetch>>
    /\ ServerUnchanged

\* onChange of a field of the form, which is shown in edit mode.
onChange(field, text) ==
    /\ editMode
    /\ formData' = [formData EXCEPT ![field] = text]
    /\ lastStep' = [kind |-> "change", id |-> selectedBook.id]
    /\ UNCHANGED <<viewBooks, selectedBook, editMode, error, mounted, tasks,
                   actions, orderly, lastFetch>>
    /\ ServerUnchanged

\* The Cancel button of the form.
Cancel ==
    /\ editMode
    /\ Render(CancelState(UI))
    /\ lastStep' = [kind |-> "cancel", id |-> selectedBook.id]
    /\ UNCHANGED <<mounted, tasks, actions, orderly, lastFetch>>
    /\ ServerUnchanged

\* The form is submitted: handleUpdate up to its await, lines 57-71.
handleUpdate ==
    /\ editMode
    /\ actions < MaxActions
    /\ InFlight < MaxInFlight
    /\ lastStep' = [kind |-> "submit", id |-> selectedBook.id]
    /\ IF selectedBook = NoBook
       THEN UNCHANGED <<tasks, actions, orderly>>
       ELSE /\ actions' = actions + 1
            /\ orderly' = (orderly /\ InFlight = 0)
            /\ tasks' = Started(tasks,
                    Task("PUT", selectedBook.id,
                         [title  |-> Str(formData.title),
                          author |-> Str(formData.author),
                          year   |-> Json(parseInt(formData.year))]))
    /\ UNCHANGED <<viewBooks, selectedBook, editMode, formData, error, mounted,
                   lastFetch>>
    /\ ServerUnchanged

\* The Delete button of a displayed book: handleDelete up to its await.
handleDelete(id) ==
    /\ mounted
    /\ actions < MaxActions
    /\ InFlight < MaxInFlight
    /\ actions' = actions + 1
    /\ orderly' = (orderly /\ InFlight = 0)
    /\ lastStep' = [kind |-> "delete", id |-> id]
    /\ tasks' = Started(tasks, Task("DELETE", id, NoBody))
    /\ UNCHANGED <<viewBooks, selectedBook, editMode, formData, error, mounted,
                   lastFetch>>
    /\ ServerUnchanged

\* The server handles the request of the call t and answers it.
Serve(t) ==
    /\ t.stage = "sent"
    /\ LET out == handler(RequestOf(t), books)
       IN  /\ books' = out.rows
           /\ tasks' = Started(Finished(tasks, t),
                    [t EXCEPT !.stage = "answered", !.status = out.res.status,
                              !.rows = IF t.kind = "GET" THEN out.res.rows
                                       ELSE <<>>])
    /\ lastStep' = [kind |-> "serve", id |-> t.id]
    /\ UNCHANGED <<viewBooks, selectedBook, editMode, formData, error, mounted,
                   actions, orderly, lastFetch>>
    /\ UNCHANGED <<dirExists, tableExists, seq, boots, seedRuns, handled, lastOp,
                   pre, ops, up, req, res>>

\* The call t resumes, its fetch fulfilled with an answer of status ok or
\* not, or rejected (ok = FALSE).
Resume(t, ok) ==
    LET u == Settled(UI, t, ok)
    IN  /\ Render(u)
        /\ tasks' = IF RefetchAfter(t.kind, ok)
                    THEN StartedFetch(Finished(tasks, t))
                    ELSE Finished(tasks, t)
        /\ lastFetch' = IF RefetchAfter(t.kind, ok) THEN "pending"
                        ELSE IF ~t.latest THEN lastFetch
                        ELSE IF ok THEN "ok" ELSE "failed"
        /\ lastStep' = [kind |-> StepName(t, ok), id |-> t.id]
        /\ UNCHANGED <<mounted, actions>>
        /\ ServerUnchanged

\* The answer to the call t arrives.
Respond(t) ==
    /\ t.stage = "answered"
    /\ Resume(t, Ok(t.status))
    /\ UNCHANGED orderly

\* The fetch of the call t fails: the request or its answer is lost.
NetworkError(t) ==
    /\ Resume(t, FALSE)
    /\ orderly' = (orderly /\ ~(t.kind \in {"PUT", "DELETE"} /\ Ok(t.status)))

ClientNext ==
    \/ Mount
    \/ \E i \in 1..Len(viewBooks) :
          viewBooks[i].id \in Clicked /\ handleEdit(viewBooks[i])
    \/ \E in \in FormInputs : onChange(in[1], in[2])
    \/ Cancel
    \/ handleUpdate
    \/ \E i \in 1..Len(viewBooks) :
          viewBooks[i].id \in Clicked /\ handleDelete(viewBooks[i].id)
    \/ \E t \in BagToSet(tasks) : Serve(t)
    \/ \E t \in BagToSet(tasks) : Respond(t)
    \/ \E t \in BagToSet(tasks) : NetworkError(t)

\* The store after the first process start, and Home at its first render.
InitClient ==
    /\ ClientInit
    /\ dirExists = TRUE
    /\ tableExists = TRUE
    /\ books = InsertAll(<<>>, 0, fakeBooks)
    /\ seq = Len(fakeBooks)
    /\ boots = 1
    /\ seedRuns = 1
    /\ handled = FALSE
    /\ lastOp = "boot"
    /\ pre = <<>>
    /\ ops = <<"CREATE TABLE", "SELECT COUNT", "INSERT", "INSERT", "INSERT">>
    /\ up = TRUE
    /\ req = NoRequest
    /\ res = NoResponse

\* One client and the server it talks to.
SpecClient == InitClient /\ [][ClientNext]_vars

----------------------------------------------------------------------------
(* Properties *)

IsRequest(method) == lastOp = "request" /\ req.method = method

\* The identifier token of the last request (present when req.id # <<>>).
Token == req.id[1].s

\* The token is written as an integer: an optional sign and digits only.
WrittenAsInteger(cs) ==
    LET body == IF cs # <<>> /\ cs[1] \in {"+", "-"} THEN Tail(cs) ELSE cs
    IN  body # <<>> /\ AllDigits(body)

\* The integer an integer token denotes.
TokenValue(cs) ==
    LET body == IF cs[1] \in {"+", "-"} THEN Tail(cs) ELSE cs
    IN  IF cs[1] = "-" THEN 0 - DigitsVal(body) ELSE DigitsVal(body)

HasIntegerToken == req.id # <<>> /\ WrittenAsInteger(Token)

\* The rows of a table with the given id.
RowsWithId(rows, i) == SelectSeq(rows, LAMBDA r : r.id = i)

Existing  == HasIntegerToken /\ RowsWithId(pre, TokenValue(Token)) # <<>>
NoSuchRow == HasIntegerToken /\ RowsWithId(pre, TokenValue(Token)) = <<>>

\* The body's fields are a non-empty title, a non-empty author and a
\* non-zero integer year.
WellFormedBody(body) ==
    /\ body.title.k = "string"  /\ body.title.s # <<>>
    /\ body.author.k = "string" /\ body.author.s # <<>>
    /\ IsInteger(body.year)     /\ body.year.n # 0

SomeFieldFalsy(body) ==
    \E v \in {body.title, body.author, body.year} : ~Truthy(v)

\* C1: a request of any method whose identifier token is present and is not
\* written as an integer is answered 400 and runs no statement on the store.
C1_NonIntegerIdRejected ==
    (lastOp = "request" /\ req.id # <<>> /\ ~WrittenAsInteger(Token))
        => (res.status = 400 /\ ops = <<>>)

\* C2: a PUT with an integer identifier whose body has a missing or falsy
\* title, author or year is answered 400 and leaves the table as it was.
C2_MissingFieldRejected ==
    (IsRequest("PUT") /\ HasIntegerToken /\ SomeFieldFalsy(req.body))
        => (res.status = 400 /\ books = pre)

\* C2's case: a PUT for the existing record 1 with year 0 has been rejected.
C2_Witness ==
    /\ IsRequest("PUT") /\ Existing /\ TokenValue(Token) = 1
    /\ req.body = [FullBody EXCEPT !.year = IntNum(0)]
    /\ res.status = 400
    /\ books = pre

\* C3: a PUT with a well-formed body and an integer identifier that matches
\* no stored record is answered 404 and leaves the table as it was.
C3_UpdateUnknownIdNotFound ==
    (IsRequest("PUT") /\ NoSuchRow /\ WellFormedBody(req.body))
        => (res.status = 404 /\ books = pre)

\* C4: a DELETE with an integer identifier that matches no stored record is
\* answered 404 and leaves the table as it was; with the identifier of a
\* stored record it is answered 204 and the table is the previous one without
\* that record, every other row kept as it was.
C4_DeleteExactlyOne ==
    (IsRequest("DELETE") /\ HasIntegerToken)
        => IF NoSuchRow
           THEN res.status = 404 /\ books = pre
           ELSE /\ res.status = 204
                /\ books = SelectSeq(pre, LAMBDA r : r.id # TokenValue(Token))
                /\ Len(books) = Len(pre) - 1

\* The rows other than row i are the same in the two tables, and the tables
\* hold the same ids in the same order.
OthersKept(before, after, i) ==
    /\ Len(after) = Len(before)
    /\ \A k \in 1..Len(before) :
          /\ after[k].id = before[k].id
          /\ before[k].id # i => after[k] = before[k]

\* The two values are the same value, a number and the text that writes it
\* counted as the same.
SameValue(x, y) ==
    \/ x = y
    \/ x.k = "number" /\ y.k = "string" /\ NumText(x.n) = y.s
    \/ x.k = "string" /\ y.k = "number" /\ NumText(y.n) = x.s

\* C5: a PUT answered 200 for an existing identifier, with truthy
\* title, author and year, returns the record with that id and with the
\* body's title, author and year; no other row is changed, added or removed.
C5_UpdatedRecordIsBody ==
    (IsRequest("PUT") /\ Existing /\ ~SomeFieldFalsy(req.body) /\ res.status = 200)
        => /\ res.kind = "book" /\ Len(res.rows) = 1
           /\ res.rows[1].id = TokenValue(Token)
           /\ SameValue(res.rows[1].title, req.body.title)
           /\ SameValue(res.rows[1].author, req.body.author)
           /\ SameValue(res.rows[1].year, req.body.year)
           /\ RowsWithId(books, TokenValue(Token)) = res.rows
           /\ OthersKept(pre, books, TokenValue(Token))

\* C6: a GET with an integer identifier token is answered 200 with the one
\* stored record of that id, or 404 when there is none; the full list is
\* returned only when no identifier is present.
C6_GetByIdOrNotFound ==
    IsRequest("GET")
        => /\ Existing =>
                /\ res.status = 200 /\ res.kind = "book"
                /\ res.rows = RowsWithId(pre, TokenValue(Token))
           /\ NoSuchRow => res.status = 404
           /\ res.kind = "list" => req.id = <<>>

\* The table holds exactly the three seed records, with ids 1, 2, 3.
ThreeSeeds ==
    /\ Len(books) = 3
    /\ \A i \in 1..3 :
          /\ books[i].id = i
          /\ books[i].title = fakeBooks[i].title
          /\ books[i].author = fakeBooks[i].author
          /\ books[i].year = fakeBooks[i].year

\* C7: after process start and a restart with no request in between, the
\* restart has succeeded, has inserted no row, and the table holds exactly the
\* three seed records.
C7_BootstrapTwice ==
    (boots >= 2 /\ ~handled)
        => (lastOp = "boot" /\ up /\ books = pre /\ ThreeSeeds /\ seedRuns = 1)

\* C7's case: the module has been loaded twice in a row on a fresh store.
C7_Witness == boots = 2 /\ ~handled /\ tableExists /\ Len(books) = 3

\* C8 as stated: the seed records are inserted at most once in the lifetime
\* of the store.
C8_SeededOnce == seedRuns <= 1

\* C8 amended: a bootstrap inserts the seed records exactly when the table
\* is empty at that start; a restart with at least one record inserts
\* nothing, and a restart after every record has been deleted seeds again.
C8_SeededWhenEmpty ==
    lastOp = "boot"
        => IF pre = <<>>
           THEN Len(books) = Len(fakeBooks) /\ seq = Len(fakeBooks) * seedRuns
           ELSE books = pre

\* C8's case: a restart after records were deleted, the table not empty.
C8_Witness ==
    /\ lastOp = "boot" /\ handled
    /\ pre # <<>> /\ Len(pre) < 3
    /\ books = pre

\* C9: the stored records have pairwise different ids, and non-empty text as
\* title and as author.
C9_UniqueIdsNonEmptyText ==
    /\ \A i, j \in 1..Len(books) : i # j => books[i].id # books[j].id
    /\ \A i \in 1..Len(books) :
          /\ books[i].title.k = "string"  /\ books[i].title.s # <<>>
          /\ books[i].author.k = "string" /\ books[i].author.s # <<>>

\* C10: the year of every stored record is an integer.
C10_YearIsInteger ==
    \A i \in 1..Len(books) : IsInteger(books[i].year)

\* C11: a request whose method is not GET, PUT or DELETE is answered 405 with
\* Allow: GET, PUT, DELETE and leaves the table as it was, whatever identifier
\* or body it carries.
C11_MethodNotAllowed ==
    (lastOp = "request" /\ req.method \notin {"GET", "PUT", "DELETE"})
        => /\ res.status = 405
           /\ res.allow = <<"GET", "PUT", "DELETE">>
           /\ books = pre
           /\ ops = <<>>

\* C11's case: a POST with a complete body and a non-integer identifier has
\* been answered 405.
C11_Witness ==
    /\ lastOp = "request" /\ req.method = "POST"
    /\ req.body = FullBody
    /\ req.id = <<Str(Chars("a", "b", "c"))>>
    /\ res.status = 405

\* The list fetches in flight.
Fetches(ts) ==
    BagCardinality([t \in {x \in BagToSet(ts) : x.kind = "GET"} |-> ts[t]])

\* The step taken is of the given kind.
Took(kind) == lastStep'.kind = kind

\* No request is sent and the server is not contacted.
NoTraffic == tasks' = tasks /\ UNCHANGED serverVars

\* C12: the cancel action taken in Editing clears the edit-mode flag, discards
\* the selection (no Book selected) and the FormBuffer, and sends no request.
C12_CancelDiscards ==
    [][Took("cancel") =>
        /\ editMode' = FALSE
        /\ selectedBook' = NoBook
        /\ formData' = EmptyForm
        /\ NoTraffic]_vars

\* C13: a successful UPDATE answer clears the edit-mode flag and the
\* selection and starts a list fetch; the displayed list changes only when
\* the answer of a list fetch is applied, and then to the rows of that answer.
C13_UpdateSuccessRefetches ==
    [][/\ Took("updateOk") =>
            /\ editMode' = FALSE
            /\ selectedBook' = NoBook
            /\ Fetches(tasks') = Fetches(tasks) + 1
       /\ viewBooks' # viewBooks =>
            /\ Took("fetchOk")
            /\ \E t \in BagToSet(tasks) :
                /\ t.kind = "GET" /\ t.stage = "answered"
                /\ viewBooks' = t.rows
                /\ tasks' = Finished(tasks, t)]_vars

\* The store holds the submitted title, the displayed list does not yet.
C13_Witness ==
    /\ lastStep.kind = "updateOk"
    /\ ~editMode /\ selectedBook = NoBook
    /\ Fetches(tasks) = 1
    /\ \E i \in 1..Len(books) : books[i].title = Str(<<"T">>)
    /\ \A i \in 1..Len(viewBooks) : viewBooks[i].title # Str(<<"T">>)

\* C14: a failed UPDATE (an answer that is not a success, or a rejected
\* fetch) leaves the edit-mode flag, the selection, the FormBuffer and the
\* displayed list as they are, sets the error message and starts no fetch.
C14_UpdateFailureKeepsForm ==
    [][Took("updateFail") =>
        /\ UNCHANGED <<editMode, selectedBook, formData, viewBooks>>
        /\ error' = "Error updating book"
        /\ Fetches(tasks') = Fetches(tasks)
        /\ InFlight' = InFlight - 1]_vars

C14_Witness ==
    /\ lastStep.kind = "updateFail"
    /\ editMode /\ selectedBook.id = lastStep.id
    /\ formData.title = <<"T">>
    /\ error = "Error updating book"
    /\ InFlight = 0

\* C15: no step of a delete (the click, the success, the failure) changes
\* the edit-mode flag, the selection or the FormBuffer; its success starts a
\* list fetch; its failure sets the error message, starts no fetch and
\* leaves the displayed list as it is.
C15_DeleteKeepsEditState ==
    [][/\ (Took("delete") \/ Took("deleteOk") \/ Took("deleteFail")) =>
            UNCHANGED <<editMode, selectedBook, formData>>
       /\ Took("deleteOk") => Fetches(tasks') = Fetches(tasks) + 1
       /\ Took("deleteFail") =>
            /\ error' = "Error deleting book"
            /\ Fetches(tasks') = Fetches(tasks)
            /\ viewBooks' = viewBooks]_vars

\* A delete failed during an edit, of a book the store no longer has.
C15_Witness ==
    /\ lastStep.kind = "deleteFail"
    /\ editMode /\ selectedBook # NoBook
    /\ error = "Error deleting book"
    /\ Len(books) < Len(viewBooks)

FailureSteps == {"fetchFail", "updateFail", "deleteFail"}

FailureMessage(kind) ==
    CASE kind = "fetchFail"  -> "Error fetching books"
      [] kind = "updateFail" -> "Error updating book"
      [] kind = "deleteFail" -> "Error deleting book"

\* C16: the error slot is empty when a list fetch starts; a failure writes
\* its message into it, and nothing else writes a message into it.
C16_ErrorSlot ==
    [][/\ Fetches(tasks') > Fetches(tasks) => error' = ""
       /\ lastStep'.kind \in FailureSteps => error' = FailureMessage(lastStep'.kind)
       /\ error' # error => error' = "" \/ lastStep'.kind \in FailureSteps]_vars

\* A refetch that followed a mutation failed.
C16_Witness ==
    /\ lastStep.kind = "fetchFail"
    /\ actions > 0
    /\ error = "Error fetching books"
    /\ lastFetch = "failed"

\* C17: at most one network operation of the client is outstanding.
C17_AtMostOneOutstanding == InFlight <= 1

\* C17 as amended: a step starts at most one network operation, and only the
\* mount, a submit and a delete add one to those outstanding (a refetch
\* takes the place of the mutation it follows).
C17_OnePerAction ==
    [][/\ InFlight' <= InFlight + 1
       /\ InFlight' = InFlight + 1 =>
            Took("mount") \/ Took("submit") \/ Took("delete")
       /\ (Took("submit") /\ selectedBook # NoBook) \/ Took("delete") =>
            InFlight' = InFlight + 1]_vars

\* A submit or delete was made while another request was outstanding.
C17_Witness ==
    /\ lastStep.kind \in {"submit", "delete"}
    /\ InFlight = 2
    /\ ~orderly

C19_EditModeHasSelection == editMode => selectedBook # NoBook

\* An edit is open while the update of another edit is outstanding.
C19_Witness ==
    /\ editMode /\ selectedBook # NoBook
    /\ lastStep.kind = "edit"
    /\ \E t \in BagToSet(tasks) : t.kind = "PUT" /\ t.id # selectedBook.id

\* C20: the successful answer to the update of book A, arriving while
\* another book B is being edited, does not clear the edit-mode flag, the
\* selection of B or the FormBuffer of B.
C20_StaleAnswerKeepsEdit ==
    [][(Took("updateOk") /\ editMode /\ selectedBook.id # lastStep'.id) =>
        UNCHANGED <<editMode, selectedBook, formData>>]_vars

\* C20 as amended: that answer clears the edit-mode flag and the selection
\* of B as well; only the FormBuffer of B is left as it is.
C20_StaleAnswerClosesEdit ==
    [][(Took("updateOk") /\ editMode /\ selectedBook.id # lastStep'.id) =>
        /\ editMode' = FALSE
        /\ selectedBook' = NoBook
        /\ formData' = formData]_vars

\* The answer for book 1 has closed the edit of book 2.
C20_Witness ==
    /\ lastStep = [kind |-> "updateOk", id |-> 1]
    /\ ~editMode /\ selectedBook = NoBook
    /\ formData.author = Orwell

====
